---- MODULE Spec2Model ----
(***************************************************************************)
(* statsboxd: the page scraper (scraper.py), the sync/dedup handler        *)
(* (app.py sync_batch) and the hydration step it calls (data_engine.py).   *)
(*                                                                         *)
(* Python strings that the code inspects character by character (titles,   *)
(* link paths, class tokens, dates) are sequences of one-character         *)
(* strings.  Ratings are kept in tenths of a star (3.5 stars = 35).        *)
(***************************************************************************)
EXTENDS Integers, Sequences, FiniteSets, TLC

VARIABLES RUNTIME_DB, request, response, tmdb_key, fetched, result,
          engine_db, out, lookups, pool

vars == <<RUNTIME_DB, request, response, tmdb_key, fetched, result,
          engine_db, out, lookups, pool>>

\* ------------------------------------------------------------------ bounds
\* rows / poster items on one scraped page
MaxRows == 2

\* records of the fallback catalog (movies.json)
CatalogSize == 12

\* entries of a short stored collection
MaxWatched == 2

\* entries handed to one hydration batch
MaxBatch == 2

\* catalog records, from the first on, that random.choice draws from when
\* the quiz has no watched data
MaxPick == 1

\* ------------------------------------------------------- python built-ins
\* Python's None (also: a dict key or an HTML attribute that is absent)
None == <<"\\None">>

\* mutant: `x is not None` in place of truthiness
Truthy_not_none(s) == s # None

\* bool(s) for a string or None
Truthy(s) == s # None /\ s # <<>>

\* a or b
Or(a, b) == IF Truthy(a) THEN a ELSE b

IsDigitChar(c) == c \in {"0", "1", "2", "3", "4", "5", "6", "7", "8", "9"}

\* str.isdigit()
isdigit(s) == Len(s) > 0 /\ \A i \in 1..Len(s) : IsDigitChar(s[i])

DigitVal(c) ==
    CASE c = "0" -> 0 [] c = "1" -> 1 [] c = "2" -> 2 [] c = "3" -> 3
      [] c = "4" -> 4 [] c = "5" -> 5 [] c = "6" -> 6 [] c = "7" -> 7
      [] c = "8" -> 8 [] c = "9" -> 9

RECURSIVE IntOfDigits(_)
IntOfDigits(s) ==
    IF Len(s) = 0 THEN 0
    ELSE IntOfDigits(SubSeq(s, 1, Len(s) - 1)) * 10 + DigitVal(s[Len(s)])

\* int(s) raises ValueError unless s is a decimal numeral
IntOk(s) == isdigit(s)

DigitChar(n) ==
    CASE n = 0 -> "0" [] n = 1 -> "1" [] n = 2 -> "2" [] n = 3 -> "3"
      [] n = 4 -> "4" [] n = 5 -> "5" [] n = 6 -> "6" [] n = 7 -> "7"
      [] n = 8 -> "8" [] n = 9 -> "9"

\* n written with exactly w decimal digits
RECURSIVE Pad(_, _)
Pad(n, w) == IF w = 0 THEN <<>> ELSE Append(Pad(n \div 10, w - 1), DigitChar(n % 10))

LowerChar(c) ==
    CASE c = "A" -> "a" [] c = "B" -> "b" [] c = "C" -> "c" [] c = "U" -> "u"
      [] OTHER -> c

\* str.lower()
lower(s) == [i \in 1..Len(s) |-> LowerChar(s[i])]

\* s.startswith(p)
startswith(s, p) == Len(s) >= Len(p) /\ SubSeq(s, 1, Len(p)) = p

\* s.endswith(p)
endswith(s, p) == Len(s) >= Len(p) /\ SubSeq(s, Len(s) - Len(p) + 1, Len(s)) = p

RECURSIVE lstrip(_, _)
lstrip(s, ch) == IF Len(s) > 0 /\ s[1] = ch THEN lstrip(Tail(s), ch) ELSE s

RECURSIVE rstrip(_, _)
rstrip(s, ch) ==
    IF Len(s) > 0 /\ s[Len(s)] = ch THEN rstrip(SubSeq(s, 1, Len(s) - 1), ch) ELSE s

\* s.strip(ch); s.strip() is strip(s, " ")
strip(s, ch) == rstrip(lstrip(s, ch), ch)

\* s.split(sep): the pieces between separators, empty pieces included
RECURSIVE split(_, _)
split(s, sep) ==
    IF \A i \in 1..Len(s) : s[i] # sep THEN <<s>>
    ELSE LET k == CHOOSE i \in 1..Len(s) :
                      s[i] = sep /\ \A j \in 1..(i - 1) : s[j] # sep
         IN  <<SubSeq(s, 1, k - 1)>> \o split(SubSeq(s, k + 1, Len(s)), sep)

\* s.rsplit(sep, 1)
rsplit1(s, sep) ==
    IF \A i \in 1..Len(s) : s[i] # sep THEN <<s>>
    ELSE LET k == CHOOSE i \in 1..Len(s) :
                      s[i] = sep /\ \A j \in (i + 1)..Len(s) : s[j] # sep
         IN  <<SubSeq(s, 1, k - 1), SubSeq(s, k + 1, Len(s))>>

\* ------------------------------------------------------- datetime.date
IsLeap(y) == (y % 4 = 0 /\ y % 100 # 0) \/ y % 400 = 0

DaysInMonth(y, m) ==
    IF m = 2 THEN (IF IsLeap(y) THEN 29 ELSE 28)
    ELSE IF m \in {4, 6, 9, 11} THEN 30 ELSE 31

\* datetime.date(y, m, d) raises ValueError outside these ranges
DateOk(y, m, d) ==
    /\ y \in 1..9999
    /\ m \in 1..12
    /\ d >= 1 /\ d <= DaysInMonth(y, m)

\* watched_date.strftime("%Y-%m-%d")
strftime(dt) == Pad(dt[1], 4) \o <<"-">> \o Pad(dt[2], 2) \o <<"-">> \o Pad(dt[3], 2)

\* ------------------------------------------------------- Scraper
\* Scraper.movies_db: the local fallback catalog loaded from movies.json
movies_db ==
    << [title |-> <<"A", "b">>, year |-> <<"2", "0", "2", "1">>,
        genre |-> <<"Drama">>, poster_url |-> <<"p">>] >>
    \o [i \in 1..(CatalogSize - 1) |->
          [title |-> <<"C">> \o Pad(i, 2), year |-> <<"2", "0", "2", "1">>,
           genre |-> IF i = CatalogSize - 1 THEN <<"Comedy", "Drama">> ELSE <<"Drama">>,
           poster_url |-> <<"p">> \o Pad(i, 2)]]

RECURSIVE infer_genre_from(_, _)
infer_genre_from(title, i) ==
    IF i > Len(movies_db) THEN <<"Uncategorized">>
    ELSE IF lower(movies_db[i].title) = lower(title) THEN movies_db[i].genre
    ELSE infer_genre_from(title, i + 1)

\* Scraper._infer_genre
infer_genre(title) == infer_genre_from(title, 1)

\* mutant: the left-most 4-digit numeric segment
found_year_idx_leftmost(parts) ==
    LET hits == {i \in 1..Len(parts) : isdigit(parts[i]) /\ Len(parts[i]) = 4}
    IN  IF hits = {} THEN 0 ELSE CHOOSE i \in hits : \A j \in hits : i <= j

\* index of the right-most 4-digit numeric segment, 0 when there is none
found_year_idx(parts) ==
    LET hits == {i \in 1..Len(parts) : isdigit(parts[i]) /\ Len(parts[i]) = 4}
    IN  IF hits = {} THEN 0 ELSE CHOOSE i \in hits : \A j \in hits : j <= i

\* the date of a diary row from its link path: <<y, m, d>>, or None when
\* no year is found or datetime.date raises ValueError
parse_date(link_href) ==
    LET parts == split(strip(link_href, "/"), "/")
        idx   == found_year_idx(parts)
        y     == IF idx = 0 THEN 0 ELSE IntOfDigits(parts[idx])
        hasM  == idx + 1 <= Len(parts) /\ isdigit(parts[idx + 1])
        hasD  == hasM /\ idx + 2 <= Len(parts) /\ isdigit(parts[idx + 2])
        m     == IF hasM THEN IntOfDigits(parts[idx + 1]) ELSE 1
        d     == IF hasD THEN IntOfDigits(parts[idx + 2]) ELSE 1
    IN  IF idx = 0 \/ y = 0 THEN None
        ELSE IF DateOk(y, m, d) THEN <<y, m, d>>
        ELSE None

\* rating of a diary row from the class tokens of its rating span: the first
\* token that starts with "rated-" decides; a ValueError leaves 0.0
RECURSIVE diary_rating(_)
diary_rating(classes) ==
    IF classes = <<>> THEN 0
    ELSE IF startswith(classes[1], <<"r", "a", "t", "e", "d", "-">>)
         THEN LET tok == split(classes[1], "-")[2]
              IN  IF IntOk(tok) THEN IntOfDigits(tok) * 5 ELSE 0
         ELSE diary_rating(Tail(classes))

\* rating of a films-page item: the same scan; an exception inside it is
\* swallowed by the enclosing try and leaves 0.0
RECURSIVE films_rating(_)
films_rating(classes) ==
    IF classes = <<>> THEN 0
    ELSE IF startswith(classes[1], <<"r", "a", "t", "e", "d", "-">>)
         THEN LET tok == split(classes[1], "-")[2]
              IN  IF IntOk(tok) THEN IntOfDigits(tok) * 5 ELSE 0
         ELSE films_rating(Tail(classes))

Unknown == <<"U", "n", "k", "n", "o", "w", "n">>

NoEntry == [title |-> None, year |-> None, rating |-> 0, date |-> None,
            genre |-> <<>>, poster_url |-> None, release_date |-> None,
            user |-> None]

\* one iteration of the diary row loop: "skip" (continue), "raise" (an
\* exception leaves the loop) or "entry".  user is the account whose page
\* was requested (not a field of the program's dict; kept for provenance).
diary_row(row, username) ==
    IF ~row.date_cell \/ ~row.date_link THEN [kind |-> "skip", entry |-> NoEntry]
    ELSE IF row.href = None THEN [kind |-> "raise", entry |-> NoEntry]
    ELSE LET watched_date == parse_date(row.href)
             title  == IF row.title_link = None THEN Unknown
                       ELSE strip(row.title_link, " ")
             year   == IF row.release_col = None THEN <<>>
                       ELSE strip(row.release_col, " ")
             rating == IF ~row.rating_span THEN 0 ELSE diary_rating(row.classes)
         IN  IF watched_date = None THEN [kind |-> "raise", entry |-> NoEntry]
             ELSE [kind |-> "entry",
                   entry |-> [title |-> title, year |-> year, rating |-> rating,
                              date |-> strftime(watched_date),
                              genre |-> infer_genre(title),
                              poster_url |-> None, release_date |-> None,
                              user |-> username]]

RECURSIVE diary_loop(_, _, _)
diary_loop(rows, username, entries) ==
    IF rows = <<>> THEN [raised |-> FALSE, entries |-> entries]
    ELSE LET r == diary_row(rows[1], username)
         IN  IF r.kind = "raise" THEN [raised |-> TRUE, entries |-> entries]
             ELSE IF r.kind = "skip" THEN diary_loop(Tail(rows), username, entries)
             ELSE diary_loop(Tail(rows), username, Append(entries, r.entry))

EmptyResult == [entries |-> <<>>, has_next |-> FALSE]

\* Scraper.scrape_page on the response f of the fetch
scrape_page(username, f) ==
    IF f.raises THEN EmptyResult
    ELSE IF f.status_code = 404 THEN EmptyResult
    ELSE IF f.status_code # 200 THEN EmptyResult
    ELSE IF f.rows = <<>> THEN EmptyResult
    ELSE LET loop == diary_loop(f.rows, username, <<>>)
         IN  IF loop.raised THEN EmptyResult
             ELSE [entries |-> loop.entries, has_next |-> f.next_link]

\* the div a films-page item resolves to: the first div carrying
\* data-item-name, else the first carrying data-film-name, else the first of
\* class film-poster; 0 when there is none
find_div(li) ==
    LET first(P(_)) == IF \E i \in 1..Len(li.divs) : P(li.divs[i])
                       THEN CHOOSE i \in 1..Len(li.divs) :
                                P(li.divs[i]) /\ \A j \in 1..(i - 1) : ~P(li.divs[j])
                       ELSE 0
        byItem(d)   == d.item_name # None
        byFilm(d)   == d.film_name # None
        byClass(d)  == d.film_poster
    IN  IF first(byItem) # 0 THEN first(byItem)
        ELSE IF first(byFilm) # 0 THEN first(byFilm)
        ELSE first(byClass)

\* "Name (2024)" -> <<"Name", "2024">>; <<title, "">> when the title does
\* not end in a parenthesised 4-digit number
clean_title(title) ==
    IF Truthy(title) /\ endswith(title, <<")">>) /\ (\E i \in 1..Len(title) : title[i] = "(")
    THEN LET parts == rsplit1(title, "(")
             possible_year == rstrip(parts[2], ")")
         IN  IF isdigit(possible_year) /\ Len(possible_year) = 4
             THEN <<strip(parts[1], " "), possible_year>>
             ELSE <<title, <<>>>>
    ELSE <<title, <<>>>>

\* one iteration of the films-page item loop: "skip" or "entry"
films_item(li, username) ==
    LET k      == find_div(li)
        title0 == IF k # 0
                  THEN Or(Or(li.divs[k].item_name, li.divs[k].film_name), Unknown)
                  ELSE IF li.has_img
                       THEN (IF li.alt = None THEN Unknown ELSE li.alt)
                       ELSE Unknown
        year0  == IF k # 0 /\ li.divs[k].release_year # None
                  THEN li.divs[k].release_year ELSE <<>>
        clean  == clean_title(title0)
        title  == clean[1]
        year   == IF Truthy(year0) THEN year0 ELSE clean[2]
        rating == IF ~li.rating_span THEN 0 ELSE films_rating(li.classes)
    IN  IF title0 = Unknown THEN [kind |-> "skip", entry |-> NoEntry]
        ELSE [kind |-> "entry",
              entry |-> [title |-> title, year |-> year, rating |-> rating,
                         date |-> None, genre |-> infer_genre(title),
                         poster_url |-> None, release_date |-> None,
                         user |-> username]]

RECURSIVE films_loop(_, _, _)
films_loop(posters, username, entries) ==
    IF posters = <<>> THEN entries
    ELSE LET r == films_item(posters[1], username)
         IN  IF r.kind = "skip" THEN films_loop(Tail(posters), username, entries)
             ELSE films_loop(Tail(posters), username, Append(entries, r.entry))

\* soup.select(...) for one class of li, in document order
RECURSIVE select(_, _)
select(lis, cls) ==
    IF lis = <<>> THEN <<>>
    ELSE IF lis[1].cls = cls THEN <<lis[1]>> \o select(Tail(lis), cls)
    ELSE select(Tail(lis), cls)

\* the selector cascade: li.griditem, else li.poster-container, else
\* .poster-list li
select_posters(lis) ==
    IF select(lis, "griditem") # <<>> THEN select(lis, "griditem")
    ELSE IF select(lis, "poster-container") # <<>> THEN select(lis, "poster-container")
    ELSE select(lis, "poster-list")

\* Scraper.scrape_films_page on the response f of the fetch
scrape_films_page(username, f) ==
    IF f.raises THEN EmptyResult
    ELSE IF f.status_code = 404 THEN EmptyResult
    ELSE [entries |-> films_loop(select_posters(f.lis), username, <<>>),
          has_next |-> f.next_link]

\* ------------------------------------------------------- scraped pages
\* the markup the model's pages are built from
Str_Ab == <<"A", "b">>
Str_ab == <<"a", "b">>
Str_2021 == <<"2", "0", "2", "1">>
Rated7 == <<"r", "a", "t", "e", "d", "-", "7">>
Rated11 == <<"r", "a", "t", "e", "d", "-", "1", "1">>
RatedX == <<"r", "a", "t", "e", "d", "-", "x">>
ClsRating == <<"r", "a", "t", "i", "n", "g">>

\* /d/2024/03/15/
HrefFull == <<"/", "d", "/", "2", "0", "2", "4", "/", "0", "3", "/", "1", "5", "/">>
\* /d/2023/
HrefYear == <<"/", "d", "/", "2", "0", "2", "3", "/">>
\* /d/x/ : no 4-digit segment
HrefNoYear == <<"/", "d", "/", "x", "/">>
\* /d/2023/02/30/ : not a calendar date
HrefFeb30 == <<"/", "d", "/", "2", "0", "2", "3", "/", "0", "2", "/", "3", "0", "/">>

DateLinks ==
    { [date_cell |-> FALSE, date_link |-> FALSE, href |-> None],
      [date_cell |-> TRUE, date_link |-> FALSE, href |-> None],
      [date_cell |-> TRUE, date_link |-> TRUE, href |-> None] }
    \cup { [date_cell |-> TRUE, date_link |-> TRUE, href |-> h] :
             h \in {HrefFull, HrefYear, HrefNoYear, HrefFeb30} }

RatingSpans ==
    { [rating_span |-> FALSE, classes |-> <<>>],
      [rating_span |-> TRUE, classes |-> <<ClsRating, Rated7>>],
      [rating_span |-> TRUE, classes |-> <<ClsRating, Rated11>>],
      [rating_span |-> TRUE, classes |-> <<ClsRating, RatedX>>] }

\* tr.diary-entry-row elements
DiaryRows ==
    { [date_cell |-> dl.date_cell, date_link |-> dl.date_link, href |-> dl.href,
       title_link |-> t, release_col |-> Str_2021,
       rating_span |-> rs.rating_span, classes |-> rs.classes] :
        dl \in DateLinks, t \in {None, Str_Ab, <<" ">>}, rs \in RatingSpans }

NoDiv == <<>>
DivOf(item, film, cls, yr) ==
    <<[item_name |-> item, film_name |-> film, film_poster |-> cls, release_year |-> yr]>>

\* "ab (2024)" and "(2024)"
Str_abYear == <<"a", "b", " ", "(", "2", "0", "2", "4", ")">>
Str_Year == <<"(", "2", "0", "2", "4", ")">>

\* what a poster li holds: its divs and its img
PosterContents ==
    { [divs |-> NoDiv, has_img |-> FALSE, alt |-> None],
      [divs |-> NoDiv, has_img |-> TRUE, alt |-> None],
      [divs |-> NoDiv, has_img |-> TRUE, alt |-> <<>>],
      [divs |-> NoDiv, has_img |-> TRUE, alt |-> Str_Ab],
      [divs |-> DivOf(Str_Ab, None, FALSE, Str_2021), has_img |-> TRUE, alt |-> Str_ab],
      [divs |-> DivOf(None, Str_abYear, FALSE, None), has_img |-> FALSE, alt |-> None],
      [divs |-> DivOf(<<>>, Str_Year, TRUE, None), has_img |-> FALSE, alt |-> None],
      [divs |-> DivOf(None, None, TRUE, None), has_img |-> TRUE, alt |-> Str_Ab],
      [divs |-> DivOf(None, None, TRUE, None) \o DivOf(Str_ab, None, FALSE, None),
       has_img |-> FALSE, alt |-> None] }

\* li elements of a films page
PosterItems ==
    { [cls |-> c, divs |-> pc.divs, has_img |-> pc.has_img, alt |-> pc.alt,
       rating_span |-> rs.rating_span, classes |-> rs.classes] :
        c \in {"griditem", "poster-container", "poster-list", "other"},
        pc \in PosterContents, rs \in RatingSpans }

SeqsUpTo(S, n) == UNION { [1..k -> S] : k \in 0..n }

StatusCodes == {200, 404, 500}

\* what self.scraper.get(url) can do: answer with a status and a body
\* (a diary page or a films page), or raise a transport error
DiaryFetch(sc, rows, nx) ==
    [kind |-> "diary", raises |-> FALSE, status_code |-> sc, rows |-> rows,
     lis |-> <<>>, next_link |-> nx]

FilmsFetch(sc, lis, nx) ==
    [kind |-> "films", raises |-> FALSE, status_code |-> sc, rows |-> <<>>,
     lis |-> lis, next_link |-> nx]

FetchRaises(kind) ==
    [kind |-> kind, raises |-> TRUE, status_code |-> 0, rows |-> <<>>,
     lis |-> <<>>, next_link |-> FALSE]

NoFetch == [kind |-> "none", raises |-> FALSE, status_code |-> 0, rows |-> <<>>,
            lis |-> <<>>, next_link |-> FALSE]

NoResult == [called |-> "none", entries |-> <<>>, has_next |-> FALSE]

NoResponse == [status |-> "none", code |-> 0, scraped |-> 0, entries |-> <<>>]

NoRequest == [username |-> None, page |-> 1, source |-> "none"]

\* no DataEngine call is returning a value
NoOut == [call |-> "none"]

\* no hydration batch is running
NoPool == [running |-> FALSE]

User_a == <<"a">>
User_b == <<"b">>
Usernames == {User_a, User_b}

\* ------------------------------------------------------- dicts
\* {} : a dict with no keys
EmptyDict == [k \in {} |-> None]

\* d.get(k, default)
Get(d, k, default) == IF k \in DOMAIN d THEN d[k] ELSE default

\* ------------------------------------------- the scraper on its own
ScrapeInit ==
    /\ RUNTIME_DB = EmptyDict
    /\ request = NoRequest
    /\ response = NoResponse
    /\ tmdb_key = None
    /\ \/ \E sc \in StatusCodes, nx \in BOOLEAN, rows \in SeqsUpTo(DiaryRows, MaxRows) :
             fetched = DiaryFetch(sc, rows, nx)
       \/ \E sc \in StatusCodes, nx \in BOOLEAN, lis \in SeqsUpTo(PosterItems, MaxRows) :
             fetched = FilmsFetch(sc, lis, nx)
       \/ \E kind \in {"diary", "films"} : fetched = FetchRaises(kind)
    /\ result = NoResult
    /\ engine_db = movies_db
    /\ out = NoOut
    /\ lookups = {}
    /\ pool = NoPool

ScrapePage ==
    /\ fetched.kind = "diary"
    /\ result.called = "none"
    /\ LET r == scrape_page(User_a, fetched)
       IN  result' = [called |-> "scrape_page", entries |-> r.entries,
                      has_next |-> r.has_next]
    /\ UNCHANGED <<RUNTIME_DB, request, response, tmdb_key, fetched,
                   engine_db, out, lookups, pool>>

ScrapeFilmsPage ==
    /\ fetched.kind = "films"
    /\ result.called = "none"
    /\ LET r == scrape_films_page(User_a, fetched)
       IN  result' = [called |-> "scrape_films_page", entries |-> r.entries,
                      has_next |-> r.has_next]
    /\ UNCHANGED <<RUNTIME_DB, request, response, tmdb_key, fetched,
                   engine_db, out, lookups, pool>>

ScrapeNext == ScrapePage \/ ScrapeFilmsPage

ScrapeSpec == ScrapeInit /\ [][ScrapeNext]_vars

\* ------------------------------------------- date links of diary rows
\* the link path made of the segments segs: /s1/s2/.../
RECURSIVE Href(_)
Href(segs) == IF segs = <<>> THEN <<"/">> ELSE <<"/">> \o segs[1] \o Href(Tail(segs))

Seg_d == <<"d">>
Seg_x == <<"x">>
Seg_2024 == <<"2", "0", "2", "4">>
Seg_2001 == <<"2", "0", "0", "1">>
Seg_03 == <<"0", "3">>
Seg_7 == <<"7">>
Seg_13 == <<"1", "3">>
Seg_15 == <<"1", "5">>
Seg_12345 == <<"1", "2", "3", "4", "5">>

\* link paths a diary row's date anchor may carry
DateHrefs ==
    { Href(<<Seg_d, Seg_2024, Seg_03, Seg_15>>),
      Href(<<Seg_d, Seg_2024, Seg_03>>),
      Href(<<Seg_d, Seg_2024>>),
      Href(<<Seg_d, Seg_2024, Seg_7, Seg_7>>),
      Href(<<Seg_2001, Seg_d, Seg_2024, Seg_03>>),
      Href(<<Seg_2024, Seg_03, Seg_15, Seg_2001>>),
      Href(<<Seg_d, Seg_2024, Seg_x, Seg_15>>),
      Href(<<Seg_d, Seg_2024, Seg_03, Seg_x>>),
      Href(<<Seg_d, Seg_2024, Seg_13, Seg_15>>),
      Href(<<Seg_d, Seg_12345, Seg_03>>),
      Href(<<Seg_d, Seg_x>>) }

\* diary rows that differ in their date link only
DatedRows ==
    { [date_cell |-> TRUE, date_link |-> TRUE, href |-> h,
       title_link |-> Str_Ab, release_col |-> Str_2021,
       rating_span |-> FALSE, classes |-> <<>>] : h \in DateHrefs }

ParseInit ==
    /\ RUNTIME_DB = EmptyDict
    /\ request = NoRequest
    /\ response = NoResponse
    /\ tmdb_key = None
    /\ \E rows \in SeqsUpTo(DatedRows, MaxRows), nx \in BOOLEAN :
          fetched = DiaryFetch(200, rows, nx)
    /\ result = NoResult
    /\ engine_db = movies_db
    /\ out = NoOut
    /\ lookups = {}
    /\ pool = NoPool

ParseSpec == ParseInit /\ [][ScrapePage]_vars

\* ------------------------------------------------------- DataEngine
\* an attribute a TMDB result object does not have (hasattr is False)
Absent == <<"\\Absent">>

\* sub in s
contains(s, sub) ==
    \E i \in 0..(Len(s) - Len(sub)) : SubSeq(s, i + 1, i + Len(sub)) = sub

AllTitles == {Str_Ab, Str_ab, <<>>, Unknown}

Str_20240101 == <<"2", "0", "2", "4", "-", "0", "1", "-", "0", "1">>

GenreList == << [id |-> "18", name |-> "Drama"], [id |-> "35", name |-> "Comedy"] >>

\* the metadata service as one hydration batch meets it: whether
\* Genre().movie_list() raises and what it lists, for which titles
\* Movie().search raises, and for which it returns `hits`
TmdbServices ==
    { [genres_raise |-> TRUE, genres |-> <<>>, raise_on |-> AllTitles,
       found |-> {}, hits |-> <<>>],
      [genres_raise |-> FALSE, genres |-> GenreList, raise_on |-> {},
       found |-> AllTitles,
       hits |-> << [poster_path |-> <<"/", "p">>, release_date |-> Str_20240101,
                    genre_ids |-> <<"35">>] >>],
      [genres_raise |-> FALSE, genres |-> GenreList, raise_on |-> {Str_ab},
       found |-> {Str_Ab},
       hits |-> << [poster_path |-> None, release_date |-> Absent,
                    genre_ids |-> <<"18", "99">>] >>] }

\* the genre-id -> name table of one batch ({} when the fetch fails)
genre_map_of(tmdb) == IF tmdb.genres_raise THEN <<>> ELSE tmdb.genres

InMap(genre_map, gid) == \E i \in 1..Len(genre_map) : genre_map[i].id = gid

MapGet(genre_map, gid) ==
    genre_map[CHOOSE i \in 1..Len(genre_map) : genre_map[i].id = gid].name

RECURSIVE real_genres_of(_, _)
real_genres_of(genre_ids, genre_map) ==
    IF genre_ids = <<>> THEN <<>>
    ELSE IF InMap(genre_map, genre_ids[1])
         THEN <<MapGet(genre_map, genre_ids[1])>> \o real_genres_of(Tail(genre_ids), genre_map)
         ELSE real_genres_of(Tail(genre_ids), genre_map)

\* https://image.tmdb.org/t/p/w500{path}
poster_of(path) == <<"w", "5", "0", "0">> \o path

\* process_movie up to the choice of the match (lines 143-154): the search
\* raises, returns nothing, or the scan for the target year raises
\* (release_date None makes the `in` test raise TypeError) or ends with
\* the match results[k]
find_match(movie, tmdb) ==
    IF movie.title \in tmdb.raise_on THEN [kind |-> "raised", k |-> 0]
    ELSE
    LET results == IF movie.title \in tmdb.found THEN tmdb.hits ELSE <<>>
        target_year == movie.year
        scan == {i \in 1..Len(results) : results[i].release_date # Absent}
        raisesAt(i) == i \in scan /\ results[i].release_date = None
        hitAt(i) == i \in scan /\ results[i].release_date # None
                    /\ contains(results[i].release_date, target_year)
        firstHit == IF \E i \in 1..Len(results) : hitAt(i)
                    THEN CHOOSE i \in 1..Len(results) :
                             hitAt(i) /\ \A j \in 1..(i - 1) : ~hitAt(j)
                    ELSE Len(results) + 1
        scanRaises == Truthy(target_year)
                      /\ \E i \in 1..Len(results) : raisesAt(i) /\ i < firstHit
        k == IF Truthy(target_year) /\ firstHit <= Len(results) THEN firstHit ELSE 1
    IN  IF results = <<>> THEN [kind |-> "no_match", k |-> 0]
        ELSE IF scanRaises THEN [kind |-> "raised", k |-> 0]
        ELSE [kind |-> "match", k |-> k]

\* lines 157-158
write_poster(movie, match) ==
    IF match.poster_path # Absent /\ Truthy(match.poster_path)
    THEN [movie EXCEPT !.poster_url = poster_of(match.poster_path)]
    ELSE movie

\* lines 159-160
write_release(movie, match) ==
    IF match.release_date # Absent /\ Truthy(match.release_date)
    THEN [movie EXCEPT !.release_date = match.release_date]
    ELSE movie

\* lines 161-164; iterating genre_ids raises TypeError when it is None
write_genre(movie, match, genre_map) ==
    IF match.genre_ids # Absent /\ genre_map # <<>>
    THEN IF match.genre_ids = None THEN [raised |-> TRUE, movie |-> movie]
         ELSE LET real_genres == real_genres_of(match.genre_ids, genre_map)
              IN  [raised |-> FALSE,
                   movie |-> IF real_genres # <<>> THEN [movie EXCEPT !.genre = real_genres]
                             ELSE movie]
    ELSE [raised |-> FALSE, movie |-> movie]

\* process_movie: one worker's lookup for one entry; an exception anywhere
\* inside is swallowed and ends the processing of that entry
process_movie(movie, tmdb, genre_map) ==
    LET found == find_match(movie, tmdb)
        results == tmdb.hits
    IN  IF found.kind # "match" THEN movie
        ELSE write_genre(write_release(write_poster(movie, results[found.k]),
                                       results[found.k]),
                         results[found.k], genre_map).movie

\* mutant: every entry is selected
needs_hydration_all(m) == TRUE

\* an entry _hydrate_with_tmdb selects for a lookup
needs_hydration(m) == m.genre = <<"Uncategorized">> \/ ~Truthy(m.poster_url)

\* the positions of `movies` for which _hydrate_with_tmdb issues a lookup
to_hydrate(movies, key) ==
    IF ~Truthy(key) THEN {}
    ELSE {i \in 1..Len(movies) : needs_hydration(movies[i])}

\* DataEngine._hydrate_with_tmdb: the entries of `movies` after the batch
hydrate_with_tmdb(movies, key, tmdb) ==
    IF ~Truthy(key) THEN movies
    ELSE LET genre_map == genre_map_of(tmdb)
         IN  [i \in 1..Len(movies) |->
                 IF needs_hydration(movies[i])
                 THEN process_movie(movies[i], tmdb, genre_map)
                 ELSE movies[i]]

\* ------------------------------------------------------- sync_batch
\* mutant: a taken title is not marked as seen
RECURSIVE dedup_no_mark(_, _, _)
dedup_no_mark(new_entries, seen_titles, unique_entries) ==
    IF new_entries = <<>> THEN unique_entries
    ELSE LET entry == new_entries[1]
         IN  IF lower(entry.title) \notin seen_titles
             THEN dedup_no_mark(Tail(new_entries), seen_titles,
                                Append(unique_entries, entry))
             ELSE dedup_no_mark(Tail(new_entries), seen_titles, unique_entries)

\* the dedup loop: entries of new_entries whose lower-cased title is not
\* in seen_titles, each title marked as seen once it is taken
RECURSIVE dedup(_, _, _)
dedup(new_entries, seen_titles, unique_entries) ==
    IF new_entries = <<>> THEN unique_entries
    ELSE LET entry == new_entries[1]
         IN  IF lower(entry.title) \notin seen_titles
             THEN dedup(Tail(new_entries), seen_titles \cup {lower(entry.title)},
                        Append(unique_entries, entry))
             ELSE dedup(Tail(new_entries), seen_titles, unique_entries)

\* mutant: the seen set holds the titles as written, not lower-cased
merge_case_sensitive(current_watched, new_entries) ==
    LET seen_titles == {current_watched[i].title : i \in 1..Len(current_watched)}
        unique_entries == dedup(new_entries, seen_titles, <<>>)
    IN  [unique_entries |-> unique_entries,
         watched |-> current_watched \o unique_entries]

\* mutant: a dated arrival replaces an undated entry of the same title
merge_prefer_dated(current_watched, new_entries) ==
    LET seen_titles == {lower(current_watched[i].title) : i \in 1..Len(current_watched)}
        unique_entries == dedup(new_entries, seen_titles, <<>>)
        dated(i) == {j \in 1..Len(new_entries) :
                        /\ lower(new_entries[j].title) = lower(current_watched[i].title)
                        /\ Truthy(new_entries[j].date)}
        kept == [i \in 1..Len(current_watched) |->
                    IF ~Truthy(current_watched[i].date) /\ dated(i) # {}
                    THEN new_entries[CHOOSE j \in dated(i) : TRUE]
                    ELSE current_watched[i]]
    IN  [unique_entries |-> unique_entries, watched |-> kept \o unique_entries]

\* the merge step: the unique entries of a scraped page against the
\* collection, and the collection extended by them
merge(current_watched, new_entries) ==
    LET seen_titles == {lower(current_watched[i].title) : i \in 1..Len(current_watched)}
        unique_entries == dedup(new_entries, seen_titles, <<>>)
    IN  [unique_entries |-> unique_entries,
         watched |-> current_watched \o unique_entries]

\* mutant: only the diary-page-1 rule, no stale-username guard
reset_db_no_guard(db, username, source, page) ==
    IF source = "diary" /\ page = 1 THEN [username |-> username, watched |-> <<>>]
    ELSE [username |-> username, watched |-> Get(db, "watched", <<>>)]

\* the two reset rules applied to RUNTIME_DB before the merge
reset_db(db, username, source, page) ==
    LET fresh == [username |-> username, watched |-> <<>>]
        db1 == IF source = "diary" /\ page = 1 THEN fresh ELSE db
    IN  IF Get(db1, "username", None) # username THEN fresh ELSE db1

CharOrd(c) == IF c = "-" THEN 45 ELSE 48 + DigitVal(c)

\* a < b for Python strings
RECURSIVE StrLess(_, _)
StrLess(a, b) ==
    IF b = <<>> THEN FALSE
    ELSE IF a = <<>> THEN TRUE
    ELSE IF a[1] # b[1] THEN CharOrd(a[1]) < CharOrd(b[1])
    ELSE StrLess(Tail(a), Tail(b))

\* sorted(list(S), reverse=True)
RECURSIVE sorted_desc(_)
sorted_desc(S) ==
    IF S = {} THEN <<>>
    ELSE LET mx == CHOOSE x \in S : \A y \in S : ~StrLess(x, y)
         IN  <<mx>> \o sorted_desc(S \ {mx})

\* the years of the dated entries, newest first
years_of(watched) ==
    sorted_desc({SubSeq(watched[i].date, 1, 4) :
                    i \in {j \in 1..Len(watched) : Truthy(watched[j].date)}})

\* ------------------------------------------------------- requests
\* source: 'diary' or 'films'
Sources == {"diary", "films"}

Pages == {1, 2}

\* the JSON bodies posted to /api/sync/batch
Requests ==
    { [username |-> u, page |-> p, source |-> src] :
        u \in Usernames, p \in Pages, src \in Sources }
    \cup { [username |-> u, page |-> 1, source |-> "diary"] : u \in {None, <<>>} }

\* the pages the site serves during a sync
SyncDiaryRows ==
    { [date_cell |-> TRUE, date_link |-> TRUE, href |-> x.href,
       title_link |-> x.title, release_col |-> Str_2021,
       rating_span |-> x.classes # <<>>, classes |-> x.classes] :
        x \in { [href |-> HrefFull, title |-> Str_Ab, classes |-> <<ClsRating, Rated7>>],
                [href |-> HrefYear, title |-> Str_ab, classes |-> <<>>] } }

SyncPosterItems ==
    { [cls |-> "griditem", divs |-> x.divs, has_img |-> x.has_img, alt |-> x.alt,
       rating_span |-> x.classes # <<>>, classes |-> x.classes] :
        x \in { [divs |-> DivOf(Str_Ab, None, FALSE, Str_2021), has_img |-> TRUE,
                 alt |-> Str_ab, classes |-> <<ClsRating, Rated7>>],
                [divs |-> DivOf(None, Str_abYear, FALSE, None), has_img |-> FALSE,
                 alt |-> None, classes |-> <<>>],
                [divs |-> NoDiv, has_img |-> TRUE, alt |-> <<>>, classes |-> <<>>] } }

SyncDiaryFetches ==
    { DiaryFetch(200, rows, FALSE) : rows \in SeqsUpTo(SyncDiaryRows, MaxRows) }
    \cup { DiaryFetch(sc, <<>>, FALSE) : sc \in {404, 500} }
    \cup { FetchRaises("diary") }

SyncFilmsFetches ==
    { FilmsFetch(200, lis, FALSE) : lis \in SeqsUpTo(SyncPosterItems, MaxRows) }
    \cup { FilmsFetch(sc, <<>>, FALSE) : sc \in {404, 500} }
    \cup { FetchRaises("films") }

\* the fetch a request leads to: none without a username
SyncFetches(req) ==
    IF ~Truthy(req.username) THEN {NoFetch}
    ELSE IF req.source = "films" THEN SyncFilmsFetches ELSE SyncDiaryFetches

\* the metadata service the hydration batch for `movies` can meet: its
\* lookups are only issued with a credential and for entries selected
SyncTmdb(movies) ==
    IF Truthy(tmdb_key) /\ \E i \in 1..Len(movies) : needs_hydration(movies[i])
    THEN TmdbServices
    ELSE {CHOOSE t \in TmdbServices : t.genres_raise}

\* scrape_page / scrape_films_page tabulated over the pages of a sync
ScrapedPage ==
    [u \in Usernames \cup {<<>>}, f \in SyncDiaryFetches \cup SyncFilmsFetches |->
        IF f.kind = "films" THEN scrape_films_page(u, f) ELSE scrape_page(u, f)]

\* sync_batch for one request, with f the site's answer to the fetch; the
\* scraper catches every exception, so the handler's "Scraper Error" branch
\* is never taken.  The appended entries are the dicts hydration updates in
\* place, so the collection ends with them as hydrated.  lookups records the
\* positions of the collection for which a title lookup was issued.
sync_batch(req, f) ==
    LET username == req.username
    IN
    /\ request' = req
    /\ UNCHANGED <<tmdb_key, fetched, result, engine_db, out, pool>>
    /\ IF ~Truthy(username)
       THEN /\ response' = [status |-> "error", code |-> 400, scraped |-> 0,
                            entries |-> <<>>]
            /\ lookups' = {}
            /\ UNCHANGED RUNTIME_DB
       ELSE \E new_entries \in {ScrapedPage[username, f].entries} :
            \E db \in {reset_db(RUNTIME_DB, username, req.source, req.page)} :
            \E merged \in {merge(Get(db, "watched", <<>>), new_entries)} :
            \E tmdb \in SyncTmdb(merged.unique_entries) :
            \E unique_entries \in {hydrate_with_tmdb(merged.unique_entries, tmdb_key, tmdb)} :
            \E current_watched \in
                 {SubSeq(merged.watched, 1, Len(merged.watched) - Len(unique_entries))
                     \o unique_entries} :
                /\ RUNTIME_DB' = [username |-> db.username,
                                  watched |-> current_watched,
                                  available_years |-> years_of(current_watched),
                                  last_updated |-> "Just now"]
                /\ response' = [status |-> "success", code |-> 200,
                                scraped |-> Len(new_entries),
                                entries |-> unique_entries]
                /\ lookups' = {Len(current_watched) - Len(unique_entries) + i :
                                  i \in to_hydrate(merged.unique_entries, tmdb_key)}

Init ==
    /\ RUNTIME_DB = EmptyDict
    /\ request = NoRequest
    /\ response = NoResponse
    /\ tmdb_key \in {None, <<"k">>}
    /\ fetched = NoFetch
    /\ result = NoResult
    /\ engine_db = movies_db
    /\ out = NoOut
    /\ lookups = {}
    /\ pool = NoPool

SyncBatch ==
    \E req \in Requests :
        \E f \in SyncFetches(req) : sync_batch(req, f)

Next == SyncBatch

Spec == Init /\ [][Next]_vars

\* ------------------------------------------------------- stored collections
\* recent_batch = watched_movies[:25]
RecentWindow == 25

Str_20240315 == strftime(<<2024, 3, 15>>)
Str_20230101 == strftime(<<2023, 1, 1>>)
Str_2024 == <<"2", "0", "2", "4">>

\* "C-01": the catalog title C01 as the site may display it
Str_C_01 == <<"C", "-", "0", "1">>

Entry(title, date, genre, poster_url, release_date) ==
    [title |-> title, year |-> Str_2021, rating |-> 35, date |-> date,
     genre |-> genre, poster_url |-> poster_url, release_date |-> release_date,
     user |-> User_a]

\* entries as sync_batch stores them: dated (diary) or undated (films),
\* as scraped or as hydrated
StoredEntries ==
    { Entry(Str_Ab, Str_20240315, <<"Drama">>, None, None),
      Entry(Str_Ab, Str_20230101, <<"Comedy">>, <<"w", "5", "0", "0", "/", "p">>, Str_20240101),
      Entry(Str_C_01, None, <<"Uncategorized">>, None, None),
      Entry(Str_C_01, None, <<"Comedy">>, <<"w", "5", "0", "0", "/", "p">>, Str_20240101),
      Entry(Str_C_01, Str_20240315, <<"Drama", "Comedy">>, <<"w", "5", "0", "0", "/", "p">>, None) }

\* collections of up to MaxWatched entries, one per lower-cased title
ShortCollections ==
    { c \in SeqsUpTo(StoredEntries, MaxWatched) :
        \A i, j \in 1..Len(c) : i # j => lower(c[i].title) # lower(c[j].title) }

\* a collection longer than the recent window: hydrated diary entries
\* U01, U02, ... and one more entry after them
LongCollections ==
    { [i \in 1..RecentWindow |->
          Entry(<<"U">> \o Pad(i, 2), Str_20240315, <<"Drama">>,
                <<"w", "5", "0", "0", "/", "p">>, Str_20240101)] \o <<last>> :
        last \in {e \in StoredEntries : e.title = Str_C_01} }

\* RUNTIME_DB as sync_batch leaves it for the collection c
db_of(c) ==
    [username |-> User_a, watched |-> c, available_years |-> years_of(c),
     last_updated |-> "Just now"]

\* ------------------------------------------------------- DataEngine analysis
month_names ==
    <<"Jan", "Feb", "Mar", "Apr", "May", "Jun", "Jul", "Aug", "Sep", "Oct", "Nov", "Dec">>

\* how often x occurs in the sequence s
count_in(s, x) == Cardinality({i \in 1..Len(s) : s[i] = x})

\* the genres counted for `movies`, in the order the loops meet them;
\* strict drops every 'Uncategorized', otherwise only one listed with others
RECURSIVE counted_genres(_, _)
counted_genres(movies, strict) ==
    IF movies = <<>> THEN <<>>
    ELSE LET g == movies[1].genre
             keep(x) == IF strict THEN x # "Uncategorized"
                        ELSE ~(x = "Uncategorized" /\ Len(g) > 1)
         IN  SelectSeq(g, keep) \o counted_genres(Tail(movies), strict)

\* the key an entry is counted under: its year, or its month name when a
\* year filter is given
evolution_key(m, year_filter) ==
    LET date_parts == split(m.date, "-")
    IN  IF Truthy(year_filter) THEN month_names[IntOfDigits(date_parts[2])]
        ELSE date_parts[1]

\* DataEngine.get_genre_evolution: m['date'].startswith raises
\* AttributeError for an entry whose date is None when a filter is given
get_genre_evolution(watched_movies, year_filter) ==
    IF Truthy(year_filter) /\ \E i \in 1..Len(watched_movies) : watched_movies[i].date = None
    THEN [raised |-> TRUE, value |-> EmptyDict]
    ELSE LET inYear(m) == startswith(m.date, year_filter)
             dated(m) == Truthy(m.date)
             target_movies == IF Truthy(year_filter)
                              THEN SelectSeq(watched_movies, inYear)
                              ELSE SelectSeq(watched_movies, dated)
             keyed(k) == LET same(m) == evolution_key(m, year_filter) = k
                         IN  counted_genres(SelectSeq(target_movies, same), TRUE)
             keys == (IF Truthy(year_filter)
                      THEN {month_names[i] : i \in 1..Len(month_names)} ELSE {})
                     \cup {evolution_key(target_movies[i], year_filter) :
                             i \in 1..Len(target_movies)}
         IN  [raised |-> FALSE,
              value |-> [k \in keys |->
                           [g \in {keyed(k)[i] : i \in 1..Len(keyed(k))} |->
                               count_in(keyed(k), g)]]]

\* ------------------------------------------------------- recommendations
\* sorted_genres[:5]
TopGenres == 5

\* rec_candidates[:10]
RecLimit == 10

IsLowerAlnum(c) ==
    \/ IsDigitChar(c)
    \/ c \in {"a", "b", "c", "d", "e", "f", "g", "h", "i", "j", "k", "l", "m",
              "n", "o", "p", "q", "r", "s", "t", "u", "v", "w", "x", "y", "z"}

\* normalize(t): re.sub(r'[^a-z0-9]', '', t.lower())
normalize(t) == SelectSeq(lower(t), IsLowerAlnum)

\* the URL _get_tmdb_poster returns when it has no poster
Placeholder == <<"via.placeholder.com">>

\* DataEngine._get_tmdb_poster
get_tmdb_poster(title, key, tmdb) ==
    IF ~Truthy(key) THEN Placeholder
    ELSE IF title \in tmdb.raise_on THEN Placeholder
    ELSE LET search == IF title \in tmdb.found THEN tmdb.hits ELSE <<>>
         IN  IF search = <<>> THEN Placeholder
             ELSE IF search[1].poster_path = Absent THEN Placeholder
             ELSE IF Truthy(search[1].poster_path) THEN poster_of(search[1].poster_path)
             ELSE Placeholder

\* the distinct elements of s in the order of their first occurrence
RECURSIVE first_seen(_)
first_seen(s) ==
    IF s = <<>> THEN <<>>
    ELSE LET other(x) == x # s[1]
         IN  <<s[1]>> \o first_seen(SelectSeq(Tail(s), other))

\* sorted(genre_counts.items(), key=lambda x: x[1], reverse=True): the keys
\* by falling count, equal counts in their first-encountered order
RECURSIVE sorted_by_count(_, _)
sorted_by_count(keys, occ) ==
    IF keys = <<>> THEN <<>>
    ELSE LET k == CHOOSE i \in 1..Len(keys) :
                      /\ \A j \in 1..Len(keys) : count_in(occ, keys[j]) <= count_in(occ, keys[i])
                      /\ \A j \in 1..(i - 1) : count_in(occ, keys[j]) < count_in(occ, keys[i])
         IN  <<keys[k]>>
             \o sorted_by_count(SubSeq(keys, 1, k - 1) \o SubSeq(keys, k + 1, Len(keys)), occ)

\* mutant: the exclusion set is built from the recent batch only
watched_titles_recent(watched_movies) ==
    {normalize(watched_movies[i].title) :
        i \in 1..(IF Len(watched_movies) < RecentWindow THEN Len(watched_movies)
                  ELSE RecentWindow)}

\* the exclusion set: the normalized titles of all watched entries
watched_titles(watched_movies) ==
    {normalize(watched_movies[i].title) : i \in 1..Len(watched_movies)}

\* the names of the top genres of the recent batch
top_genres_names(watched_movies) ==
    LET recent_batch == SubSeq(watched_movies, 1,
                               IF Len(watched_movies) < RecentWindow
                               THEN Len(watched_movies) ELSE RecentWindow)
        occ == counted_genres(recent_batch, TRUE)
        sorted_genres == sorted_by_count(first_seen(occ), occ)
    IN  {sorted_genres[i] :
            i \in 1..(IF Len(sorted_genres) < TopGenres THEN Len(sorted_genres)
                      ELSE TopGenres)}

\* the catalog records that qualify, in catalog order
rec_candidates(watched_movies, db) ==
    LET top == top_genres_names(watched_movies)
        qualifies(movie) ==
            /\ normalize(movie.title) \notin watched_titles(watched_movies)
            /\ \/ top = {}
               \/ \E i \in 1..Len(movie.genre) : movie.genre[i] \in top
    IN  SelectSeq(db, qualifies)

\* the elements of a set of numbers, ascending
RECURSIVE ascending(_)
ascending(S) ==
    IF S = {} THEN <<>>
    ELSE LET mn == CHOOSE x \in S : \A y \in S : x <= y
         IN  <<mn>> \o ascending(S \ {mn})

\* random.shuffle(rec_candidates) followed by [:10]: any min(10, n) of the
\* candidates can come first.  Every such choice is drawn, in catalog order
\* or in the reverse of it.
Selections(candidates) ==
    LET n == Len(candidates)
        k == IF n < RecLimit THEN n ELSE RecLimit
        picks == {S \in SUBSET (1..n) : Cardinality(S) = k}
        inOrder(S) == [i \in 1..k |-> candidates[ascending(S)[i]]]
        reversed(S) == [i \in 1..k |-> candidates[ascending(S)[k + 1 - i]]]
    IN  {inOrder(S) : S \in picks} \cup {reversed(S) : S \in picks}

\* DataEngine.get_recommendations for one outcome `selected` of the shuffle
get_recommendations(watched_movies, selected, key, tmdb) ==
    IF watched_movies = <<>> THEN <<>>
    ELSE [i \in 1..Len(selected) |->
            LET tmdb_poster == get_tmdb_poster(selected[i].title, key, tmdb)
            IN  [title |-> selected[i].title, year |-> selected[i].year,
                 poster_url |-> IF tmdb_poster # Placeholder THEN tmdb_poster
                                ELSE selected[i].poster_url]]

\* the metadata service a call can meet: its behaviours matter only when a
\* credential is configured
EngineTmdb ==
    IF Truthy(tmdb_key) THEN TmdbServices
    ELSE {CHOOSE t \in TmdbServices : t.genres_raise}

\* ------------------------------------------------------- analyze_profile
\* mutant: the release date stands in for a missing date whatever the flag
filter_date_any(m, include_undated) ==
    IF ~Truthy(m.date) /\ Truthy(m.release_date) THEN m.release_date ELSE m.date

\* the date the year filter tests: the entry's date, or its release date
\* when the date is missing and include_undated is set
filter_date(m, include_undated) ==
    IF ~Truthy(m.date) /\ include_undated /\ Truthy(m.release_date)
    THEN m.release_date ELSE m.date

\* the date an entry is placed under in the heatmap; None: left out
heatmap_date(m, include_undated) ==
    IF Truthy(m.date) THEN m.date
    ELSE IF include_undated /\ Truthy(m.release_date) THEN m.release_date
    ELSE None

\* DataEngine.analyze_profile on the collection as hydration left it.  The
\* average rating (a rounded float) is not part of the returned record here.
analyze_profile(watched_movies, year, include_undated) ==
    IF watched_movies = <<>>
    THEN [total_films |-> 0, grand_total |-> 0, undated_count |-> 0,
          top_genres |-> <<>>, heatmap_data |-> EmptyDict]
    ELSE LET undated(m) == ~Truthy(m.date)
             inTarget(m) ==
                 IF Truthy(year)
                 THEN /\ Truthy(filter_date(m, include_undated))
                      /\ startswith(filter_date(m, include_undated), year)
                 ELSE TRUE
             target_movies == SelectSeq(watched_movies, inTarget)
             occ == counted_genres(target_movies, FALSE)
             keys == first_seen(occ)
             sorted_genres == sorted_by_count(keys, occ)
             placed(m) == heatmap_date(m, include_undated) # None
             shown == SelectSeq(target_movies, placed)
             on(d) == LET here(m) == heatmap_date(m, include_undated) = d
                      IN  SelectSeq(shown, here)
         IN  [total_films |-> Len(target_movies),
              grand_total |-> Len(watched_movies),
              undated_count |-> Len(SelectSeq(watched_movies, undated)),
              top_genres |-> [i \in 1..Len(sorted_genres) |->
                                <<sorted_genres[i], count_in(occ, sorted_genres[i])>>],
              heatmap_data |->
                 [d \in {heatmap_date(shown[i], include_undated) : i \in 1..Len(shown)} |->
                     [count |-> Len(on(d)),
                      movies |-> [i \in 1..Len(on(d)) |-> on(d)[i].title]]]]

\* ------------------------------------------------------- quiz
\* random.choice([3.0, 3.5, 4.0, 4.5, 5.0]), in tenths of a star
MockRatings == {30, 35, 40, 45, 50}

\* movie after movie['rating'] = r
with_rating(movie, r) ==
    [f \in DOMAIN movie \cup {"rating"} |-> IF f = "rating" THEN r ELSE movie[f]]

\* the poster of the quiz: the service's, else the catalog's for the title
quiz_poster(title, db, key, tmdb) ==
    LET poster_url == get_tmdb_poster(title, key, tmdb)
        matches == {i \in 1..Len(db) : lower(db[i].title) = lower(title)}
    IN  IF poster_url = Placeholder /\ matches # {}
        THEN db[CHOOSE i \in matches : \A j \in matches : i <= j].poster_url
        ELSE poster_url

\* DataEngine._get_rating_quiz with a non-empty collection, for the entry
\* random.choice picked.  The answer options, drawn at random around the
\* correct rating, are not part of the returned record here.
rating_quiz_watched(target_movie, db, key, tmdb) ==
    [movie_title |-> target_movie.title, rating |-> target_movie.rating,
     poster_url |-> quiz_poster(target_movie.title, db, key, tmdb)]

\* DataEngine._get_rating_quiz with no watched data: the catalog record k
\* is picked and the mock rating is stored in it
rating_quiz_mock(k, user_rating, db, key, tmdb) ==
    [db |-> [db EXCEPT ![k] = with_rating(db[k], user_rating)],
     quiz |-> [movie_title |-> db[k].title, rating |-> user_rating,
               poster_url |-> quiz_poster(db[k].title,
                                          [db EXCEPT ![k] = with_rating(db[k], user_rating)],
                                          key, tmdb)]]

\* ------------------------------------------------------- the engine's calls
\* the year argument of /api/stats and /api/evolution
YearArgs == {None, Str_2024}

EngineInit ==
    /\ RUNTIME_DB \in {EmptyDict} \cup {db_of(c) : c \in ShortCollections \cup LongCollections}
    /\ request = NoRequest
    /\ response = NoResponse
    /\ tmdb_key \in {None, <<"k">>}
    /\ fetched = NoFetch
    /\ result = NoResult
    /\ engine_db = movies_db
    /\ out = NoOut
    /\ lookups = {}
    /\ pool = NoPool

\* GET /api/evolution
GetEvolution ==
    /\ out = NoOut
    /\ \E year \in YearArgs :
         LET r == get_genre_evolution(Get(RUNTIME_DB, "watched", <<>>), year)
         IN  out' = [call |-> "get_genre_evolution", year |-> year,
                     raised |-> r.raised, value |-> r.value]
    /\ UNCHANGED <<RUNTIME_DB, request, response, tmdb_key, fetched, result,
                   engine_db, lookups, pool>>

\* GET /api/recommendations
GetRecommendations ==
    /\ out = NoOut
    /\ \E tmdb \in EngineTmdb :
       \E selected \in (IF Get(RUNTIME_DB, "watched", <<>>) = <<>> THEN {<<>>}
                        ELSE Selections(rec_candidates(RUNTIME_DB.watched, engine_db))) :
         out' = [call |-> "get_recommendations",
                 value |-> get_recommendations(Get(RUNTIME_DB, "watched", <<>>),
                                               selected, tmdb_key, tmdb)]
    /\ UNCHANGED <<RUNTIME_DB, request, response, tmdb_key, fetched, result,
                   engine_db, lookups, pool>>

\* the metadata service a hydration of `movies` can meet
HydrationTmdb(movies) ==
    IF to_hydrate(movies, tmdb_key) # {} THEN TmdbServices
    ELSE {CHOOSE t \in TmdbServices : t.genres_raise}

\* GET /api/stats: analyze_profile on the stored list; with a credential it
\* first hydrates the stored entries in place
GetStats ==
    /\ out = NoOut
    /\ \E year \in YearArgs, include_undated \in BOOLEAN :
       \E watched_movies \in {Get(RUNTIME_DB, "watched", <<>>)} :
       \E tmdb \in HydrationTmdb(watched_movies) :
       \E hydrated \in {hydrate_with_tmdb(watched_movies, tmdb_key, tmdb)} :
          /\ RUNTIME_DB' = IF watched_movies = <<>> THEN RUNTIME_DB
                           ELSE [RUNTIME_DB EXCEPT !.watched = hydrated]
          /\ lookups' = to_hydrate(watched_movies, tmdb_key)
          /\ out' = [call |-> "analyze_profile", year |-> year,
                     include_undated |-> include_undated,
                     value |-> analyze_profile(hydrated, year, include_undated)]
    /\ UNCHANGED <<request, response, tmdb_key, fetched, result, engine_db, pool>>

\* GET /api/quiz
GetQuiz ==
    /\ out = NoOut
    /\ \E watched_movies \in {Get(RUNTIME_DB, "watched", <<>>)} :
       \E tmdb \in EngineTmdb :
          IF watched_movies # <<>>
          THEN /\ \E i \in 1..Len(watched_movies) :
                    out' = [call |-> "get_quiz_question",
                            value |-> rating_quiz_watched(watched_movies[i], engine_db,
                                                          tmdb_key, tmdb)]
               /\ UNCHANGED engine_db
          ELSE \E k \in 1..(IF Len(engine_db) < MaxPick THEN Len(engine_db) ELSE MaxPick),
                  user_rating \in MockRatings :
                 /\ \E r \in {rating_quiz_mock(k, user_rating, engine_db, tmdb_key, tmdb)} :
                      /\ engine_db' = r.db
                      /\ out' = [call |-> "get_quiz_question", value |-> r.quiz]
    /\ UNCHANGED <<RUNTIME_DB, request, response, tmdb_key, fetched, result,
                   lookups, pool>>

\* return jsonify(...): the value goes to the client and the route is free
\* for the next request
Respond ==
    /\ out # NoOut
    /\ out' = NoOut
    /\ UNCHANGED <<RUNTIME_DB, request, response, tmdb_key, fetched, result,
                   engine_db, lookups, pool>>

EngineNext == GetEvolution \/ GetRecommendations \/ GetStats \/ GetQuiz \/ Respond

EngineSpec == EngineInit /\ [][EngineNext]_vars

\* ------------------------------------------- syncs and profile analyses
\* sync requests of one account, answered with pages of at most one item
StatsRequests ==
    { [username |-> User_a, page |-> p, source |-> src] : p \in Pages, src \in Sources }

StatsFetches(req) ==
    {f \in SyncFetches(req) :
        ~f.raises /\ f.status_code = 200 /\ Len(f.rows) <= 1 /\ Len(f.lis) <= 1}

StatsSync ==
    \E req \in StatsRequests :
        \E f \in StatsFetches(req) : sync_batch(req, f)

StatsNext == StatsSync \/ GetStats \/ Respond

StatsSpec == Init /\ [][StatsNext]_vars

\* ------------------------------------------- the hydration batch, per worker
\* the services of a batch; the last one answers with a result whose
\* genre_ids is null, so that iterating it (line 162) raises TypeError
PoolServices ==
    TmdbServices \cup
    { [genres_raise |-> FALSE, genres |-> GenreList, raise_on |-> {Str_ab},
       found |-> {Str_Ab},
       hits |-> << [poster_path |-> <<"/", "q">>, release_date |-> Str_20240101,
                    genre_ids |-> None] >>] }

\* entries handed to _hydrate_with_tmdb: two as scraped, one hydrated
PoolEntries ==
    { Entry(Str_Ab, None, <<"Uncategorized">>, None, None),
      Entry(Str_ab, Str_20240315, <<"Uncategorized">>, None, None),
      Entry(Str_C_01, Str_20240315, <<"Comedy">>, <<"w", "5", "0", "0", "/", "p">>,
            Str_20240101) }

PoolBatches == SeqsUpTo(PoolEntries, MaxBatch)

\* mutant: every worker is handed the first selected entry
assigned_first(todo, w) == todo[1]

\* executor.map(process_movie, to_hydrate): the w-th call receives the
\* w-th selected entry (the dict itself, not a copy)
assigned(todo, w) == todo[w]

PoolInit ==
    /\ RUNTIME_DB = EmptyDict
    /\ request = NoRequest
    /\ response = NoResponse
    /\ tmdb_key \in {None, <<"k">>}
    /\ fetched = NoFetch
    /\ result = NoResult
    /\ engine_db = movies_db
    /\ out = NoOut
    /\ lookups = {}
    /\ pool = NoPool

\* _hydrate_with_tmdb up to the submission of the calls (lines 102-170):
\* without a credential it returns at once; otherwise the genre table is
\* fetched and one call per selected entry is submitted
SubmitBatch ==
    /\ ~pool.running
    /\ \E movies \in PoolBatches, tmdb \in PoolServices :
         LET todo == ascending(to_hydrate(movies, tmdb_key))
         IN  pool' = [running |-> Truthy(tmdb_key), movies0 |-> movies,
                      movies |-> movies, tmdb |-> tmdb,
                      genre_map |-> genre_map_of(tmdb), todo |-> todo,
                      pc |-> [w \in 1..Len(todo) |-> "search"],
                      hit |-> [w \in 1..Len(todo) |-> 0],
                      outcome |-> [w \in 1..Len(todo) |-> "pending"]]
    /\ UNCHANGED <<RUNTIME_DB, request, response, tmdb_key, fetched, result,
                   engine_db, out, lookups>>

\* one step of the call w of process_movie (lines 140-166): the search and
\* the choice of the match, then the three writes, each of them to the
\* dict the call received; an exception ends the call
WorkerStep(w) ==
    /\ pool.running
    /\ pool.pc[w] # "done"
    /\ LET i == assigned(pool.todo, w)
           m == pool.movies[i]
       IN  CASE pool.pc[w] = "search" ->
                  LET found == find_match(m, pool.tmdb)
                  IN  IF found.kind = "match"
                      THEN pool' = [pool EXCEPT !.pc[w] = "poster", !.hit[w] = found.k]
                      ELSE pool' = [pool EXCEPT !.pc[w] = "done",
                                                !.outcome[w] = found.kind]
             [] pool.pc[w] = "poster" ->
                  pool' = [pool EXCEPT !.pc[w] = "release",
                             !.movies[i] = write_poster(m, pool.tmdb.hits[pool.hit[w]])]
             [] pool.pc[w] = "release" ->
                  pool' = [pool EXCEPT !.pc[w] = "genre",
                             !.movies[i] = write_release(m, pool.tmdb.hits[pool.hit[w]])]
             [] pool.pc[w] = "genre" ->
                  LET g == write_genre(m, pool.tmdb.hits[pool.hit[w]], pool.genre_map)
                  IN  pool' = [pool EXCEPT !.pc[w] = "done", !.movies[i] = g.movie,
                                 !.outcome[w] = IF g.raised THEN "raised" ELSE "ok"]
    /\ UNCHANGED <<RUNTIME_DB, request, response, tmdb_key, fetched, result,
                   engine_db, out, lookups>>

Work == \E w \in 1..MaxBatch : pool.running /\ w <= Len(pool.todo) /\ WorkerStep(w)

\* the `with ThreadPoolExecutor` block ends when every call has returned
Shutdown ==
    /\ pool.running
    /\ \A w \in 1..Len(pool.todo) : pool.pc[w] = "done"
    /\ pool' = [pool EXCEPT !.running = FALSE]
    /\ UNCHANGED <<RUNTIME_DB, request, response, tmdb_key, fetched, result,
                   engine_db, out, lookups>>

PoolNext == SubmitBatch \/ Work \/ Shutdown

PoolSpec == PoolInit /\ [][PoolNext]_vars

\* ------------------------------------------------------- properties
watched == Get(RUNTIME_DB, "watched", <<>>)

titles_of(entries) == {lower(entries[i].title) : i \in 1..Len(entries)}

\* the entry lists a sync can scrape
SyncPageEntries ==
    { ScrapedPage[u, f].entries : u \in Usernames, f \in SyncDiaryFetches \cup SyncFilmsFetches }

\* the request just handled was accepted and the handler reset the
\* collection: diary page 1, or a stored username other than the requested
ResetCondition ==
    \/ request'.source = "diary" /\ request'.page = 1
    \/ Get(RUNTIME_DB, "username", None) # request'.username

\* a step that handled a request carrying a username
Accepted == Truthy(request'.username) /\ response'.status = "success"

same_scraped_fields(e1, e2) ==
    /\ e1.title = e2.title /\ e1.year = e2.year
    /\ e1.rating = e2.rating /\ e1.date = e2.date

\* C1: the stored collection holds at most one entry per lower-cased title.
C1_OnePerTitle ==
    \A i, j \in 1..Len(watched) :
        i # j => lower(watched[i].title) # lower(watched[j].title)

\* a diary page 1 that yielded two entries left a collection of one
C1_Witness ==
    /\ request.source = "diary" /\ request.page = 1
    /\ response.status = "success" /\ response.scraped = 2
    /\ Len(watched) = 1

\* C2: whatever the collection, merging a scraped page and merging the same
\* page again adds nothing the second time and leaves the collection as the
\* first merge left it.
C2_Idempotent ==
    \A P \in SyncPageEntries :
        LET once  == merge(watched, P)
            twice == merge(once.watched, P)
        IN  twice.unique_entries = <<>> /\ twice.watched = once.watched

\* a page of entries was merged without a reset and added nothing
C2_Witness ==
    /\ response.status = "success"
    /\ ~(request.source = "diary" /\ request.page = 1)
    /\ response.scraped > 0 /\ response.entries = <<>>
    /\ \E P \in SyncPageEntries :
          Len(P) = response.scraped /\ merge(watched, P).unique_entries = <<>>

\* C3: a sync that does not reset the collection keeps every stored entry
\* in place with its title, year, rating and date, and appends only entries
\* whose lower-cased title was not stored: of two entries with one title the
\* first merged is kept, dated or not.
C3_FirstWins ==
    [][ (Accepted /\ ~ResetCondition) =>
          /\ Len(watched') = Len(watched) + Len(response'.entries)
          /\ \A i \in 1..Len(watched) : same_scraped_fields(watched'[i], watched[i])
          /\ \A i \in 1..Len(response'.entries) :
                /\ watched'[Len(watched) + i] = response'.entries[i]
                /\ lower(response'.entries[i].title) \notin titles_of(watched) ]_vars

\* a films page brought undated entries for the one dated title stored:
\* none was added and the dated entry is still there
C3_Witness ==
    /\ request.source = "films" /\ response.status = "success"
    /\ response.scraped > 0 /\ response.entries = <<>>
    /\ Len(watched) = 1 /\ Truthy(watched[1].date)

\* C4: sync_batch empties the collection before merging exactly when the
\* request is diary page 1 or the stored username differs from the requested
\* one, and every stored entry came from a page scraped for the stored
\* username.
C4_ResetPolicy ==
    /\ [](\A i \in 1..Len(watched) : watched[i].user = RUNTIME_DB.username)
    /\ [][ Accepted =>
             /\ RUNTIME_DB'.username = request'.username
             /\ ResetCondition => watched' = response'.entries
             /\ ~ResetCondition =>
                   /\ Len(watched') = Len(watched) + Len(response'.entries)
                   /\ \A i \in 1..Len(watched) : watched'[i] = watched[i] ]_vars

\* a films request for user b was merged into a collection holding only
\* what that request added
C4_Witness ==
    /\ request.source = "films" /\ request.username = User_b
    /\ response.status = "success"
    /\ watched # <<>> /\ watched = response.entries

\* C5: a request without a username is answered with status 'error' and
\* HTTP 400 and changes nothing in RUNTIME_DB.
C5_UsernameRequired ==
    [][ request'.username \in {None, <<>>} =>
          /\ response'.status = "error" /\ response'.code = 400
          /\ response'.entries = <<>>
          /\ RUNTIME_DB' = RUNTIME_DB ]_vars

\* a request without a username was rejected while a collection was stored
C5_Witness ==
    /\ request.username \in {None, <<>>} /\ request.source # "none"
    /\ response.status = "error"
    /\ watched # <<>>

\* the fetch came back with status 200 and the scraper has returned
Scraped200 ==
    result.called # "none" /\ ~fetched.raises /\ fetched.status_code = 200

\* a diary row with a date cell and an anchor carrying an href
has_date_link(row) == row.date_cell /\ row.date_link /\ row.href # None

\* C6: a diary row whose link path gives no date is emitted with date None.
C6_UndatedRowEmitted ==
    (Scraped200 /\ result.called = "scrape_page") =>
        \A i \in 1..Len(fetched.rows) :
            (has_date_link(fetched.rows[i]) /\ parse_date(fetched.rows[i].href) = None)
                => \E j \in 1..Len(result.entries) :
                      /\ result.entries[j].date = None
                      /\ lower(result.entries[j].title)
                           = lower(IF fetched.rows[i].title_link = None THEN Unknown
                                   ELSE strip(fetched.rows[i].title_link, " "))

\* C7: a malformed row or item never aborts the page: every well-formed row
\* of the page has its entry in the result, and has_next is the page's.
C7_RowNeverAbortsPage ==
    Scraped200 =>
        /\ \A i \in 1..Len(fetched.rows) :
              diary_row(fetched.rows[i], User_a).kind = "entry"
                 => \E j \in 1..Len(result.entries) :
                       result.entries[j] = diary_row(fetched.rows[i], User_a).entry
        /\ \A i \in 1..Len(select_posters(fetched.lis)) :
              films_item(select_posters(fetched.lis)[i], User_a).kind = "entry"
                 => \E j \in 1..Len(result.entries) :
                       result.entries[j] = films_item(select_posters(fetched.lis)[i], User_a).entry
        /\ (fetched.rows # <<>> \/ fetched.kind = "films")
              => result.has_next = fetched.next_link

\* C8: a fetch that raises or returns a status other than 200 gives
\* entries = [] and has_next = False, whatever the body.
C8_FailedFetchIsEmpty ==
    (result.called # "none" /\ (fetched.raises \/ fetched.status_code # 200)) =>
        result.entries = <<>> /\ ~result.has_next

\* the half-star lattice 0.0, 0.5, ..., 5.0 in tenths of a star
HalfStars == {5 * n : n \in 0..10}

\* C9: every emitted entry's rating lies in the half-star lattice.
C9_RatingInLattice ==
    \A j \in 1..Len(result.entries) : result.entries[j].rating \in HalfStars

\* C10: no emitted entry and no stored entry has an empty title.
C10_TitleNeverEmpty ==
    /\ \A j \in 1..Len(result.entries) : result.entries[j].title # <<>>
    /\ \A i \in 1..Len(watched) : watched[i].title # <<>>

\* C11: with a year filter, get_genre_evolution returns a map whose keys are
\* exactly the twelve month names, whatever the collection; undated entries
\* are skipped without an error.
C11_TwelveMonths ==
    (out.call = "get_genre_evolution" /\ Truthy(out.year)) =>
        /\ ~out.raised
        /\ DOMAIN out.value = {month_names[i] : i \in 1..12}

\* C12: get_recommendations returns at most 10 items and none whose
\* normalized title is the normalized title of an entry anywhere in the
\* watched collection.
C12_NoWatchedRecommended ==
    out.call = "get_recommendations" =>
        /\ Len(out.value) <= 10
        /\ \A i \in 1..Len(out.value) : \A j \in 1..Len(watched) :
              normalize(out.value[i].title) # normalize(watched[j].title)

\* ten items were recommended from more than ten candidates while the
\* collection holds, beyond its 25 most recent entries, a catalog title
C12_Witness ==
    /\ out.call = "get_recommendations" /\ Len(out.value) = 10
    /\ Len(watched) > 25
    /\ \E i \in 1..Len(engine_db) :
          normalize(engine_db[i].title) = normalize(watched[Len(watched)].title)
    /\ Len(rec_candidates(watched, engine_db)) > 10

\* the sum of the counts of a heatmap
RECURSIVE heatmap_total(_)
heatmap_total(h) ==
    IF DOMAIN h = {} THEN 0
    ELSE LET d == CHOOSE x \in DOMAIN h : TRUE
         IN  h[d].count + heatmap_total([x \in DOMAIN h \ {d} |-> h[x]])

\* the effective date of a stored entry under the flag of the last call
effective_date(m) ==
    IF Truthy(m.date) THEN m.date
    ELSE IF out.include_undated /\ Truthy(m.release_date) THEN m.release_date
    ELSE None

\* the stored entries the last analyze_profile call had to count
counted_entries ==
    {i \in 1..Len(watched) :
        \/ ~Truthy(out.year)
        \/ /\ effective_date(watched[i]) # None
           /\ startswith(effective_date(watched[i]), out.year)}

\* C13: total_films is the number of entries whose effective date starts
\* with the year (all entries without a filter), and the heatmap counts sum
\* to the number of those that have an effective date.
C13_ProfileCounts ==
    out.call = "analyze_profile" =>
        /\ out.value.total_films = Cardinality(counted_entries)
        /\ heatmap_total(out.value.heatmap_data)
             = Cardinality({i \in counted_entries : effective_date(watched[i]) # None})

\* a filtered call with include_undated counted an undated entry by its
\* release date and placed it in the heatmap
C13_Witness ==
    /\ out.call = "analyze_profile" /\ Truthy(out.year) /\ out.include_undated
    /\ out.value.total_films > 0
    /\ \E i \in counted_entries :
          /\ ~Truthy(watched[i].date)
          /\ watched[i].release_date \in DOMAIN out.value.heatmap_data

\* C14: the fallback catalog is read-only: after any sequence of calls every
\* catalog record has exactly the fields and values it had when loaded.
C14_CatalogReadOnly ==
    engine_db = movies_db

\* a decimal numeral written with two digits: "7" and "07" give "07"
two_digits(s) ==
    LET t == lstrip(s, "0")
    IN  IF Len(t) = 0 THEN <<"0", "0">>
        ELSE IF Len(t) = 1 THEN <<"0">> \o t
        ELSE t

\* the year, month and day segments the scan described in C15 takes from
\* a link path; year is None when no segment is a 4-digit number
claimed_parts(href) ==
    LET segs == split(strip(href, "/"), "/")
        years == {i \in 1..Len(segs) : isdigit(segs[i]) /\ Len(segs[i]) = 4}
        at == CHOOSE i \in years : \A j \in years : j <= i
        hasMonth == at + 1 <= Len(segs) /\ isdigit(segs[at + 1])
        hasDay == hasMonth /\ at + 2 <= Len(segs) /\ isdigit(segs[at + 2])
    IN  IF years = {} THEN [year |-> None, month |-> <<"1">>, day |-> <<"1">>]
        ELSE [year |-> segs[at],
              month |-> IF hasMonth THEN segs[at + 1] ELSE <<"1">>,
              day |-> IF hasDay THEN segs[at + 2] ELSE <<"1">>]

\* the link path names a calendar date
claimed_valid(href) ==
    LET p == claimed_parts(href)
    IN  /\ p.year # None
        /\ DateOk(IntOfDigits(p.year), IntOfDigits(p.month), IntOfDigits(p.day))

hydrated(m) == m.genre # <<"Uncategorized">> /\ Truthy(m.poster_url)

\* the step is an analyze_profile call
AnalyzeStep == out = NoOut /\ out' # NoOut /\ out'.call = "analyze_profile"

\* the step is a sync_batch call that kept the collection
KeepingSyncStep == out' = out /\ Accepted /\ ~ResetCondition

\* C16: a lookup is issued only for entries whose genre is ['Uncategorized']
\* or whose poster_url is unset; across syncs and profile analyses an entry
\* already hydrated is not queried and keeps its fields, and without a
\* credential no lookup is issued and no entry is changed.
C16_OnlyUnhydratedQueried ==
    [][ /\ AnalyzeStep =>
             /\ \A i \in lookups' :
                   /\ i \in 1..Len(watched)
                   /\ watched[i].genre = <<"Uncategorized">> \/ ~Truthy(watched[i].poster_url)
             /\ \A i \in 1..Len(watched) :
                   hydrated(watched[i]) => i \notin lookups' /\ watched'[i] = watched[i]
             /\ ~Truthy(tmdb_key) => lookups' = {} /\ watched' = watched
        /\ KeepingSyncStep =>
             /\ \A i \in 1..Len(watched) :
                   hydrated(watched[i]) => i \notin lookups' /\ watched'[i] = watched[i]
             /\ ~Truthy(tmdb_key) =>
                   /\ lookups' = {}
                   /\ \A i \in 1..Len(watched') :
                         i > Len(watched) =>
                            watched'[i].poster_url = None /\ watched'[i].release_date = None
      ]_vars

\* a profile analysis queried the second entry and left the first, already
\* hydrated, alone
C16_Witness ==
    /\ out.call = "analyze_profile" /\ Truthy(tmdb_key)
    /\ Len(watched) = 2 /\ lookups = {2}
    /\ hydrated(watched[1])

\* the entry of the batch the call w was submitted for
entry_of(w) == pool.todo[w]

same_metadata(a, b) ==
    a.genre = b.genre /\ a.poster_url = b.poster_url /\ a.release_date = b.release_date

\* C17: when the lookup for one candidate fails (an error at any point of
\* its processing, or no match), the other candidates of the batch are
\* still processed and the failing entry keeps its genre, poster_url and
\* release_date as they were before the batch
C17_FailedLookupLeavesEntry ==
    pool # NoPool =>
        /\ \A w \in 1..Len(pool.todo) :
              pool.outcome[w] \in {"raised", "no_match"} =>
                  same_metadata(pool.movies[entry_of(w)], pool.movies0[entry_of(w)])
        /\ ~pool.running =>
              \A w \in 1..Len(pool.todo) :
                  /\ pool.outcome[w] # "pending"
                  /\ pool.outcome[w] = "ok" =>
                        pool.movies[entry_of(w)] =
                            process_movie(pool.movies0[entry_of(w)], pool.tmdb,
                                          pool.genre_map)

\* C18: each worker writes only the entry it was submitted for, so no two
\* workers write the same entry, and when the batch has ended the entries
\* hold the same values whatever the order of the workers' steps was
C18_WorkersDisjoint ==
    /\ [](pool # NoPool /\ ~pool.running =>
              pool.movies = hydrate_with_tmdb(pool.movies0, tmdb_key, pool.tmdb))
    /\ [][pool # NoPool /\ pool.running /\ pool'.running =>
              \A i \in 1..Len(pool.movies) :
                  pool'.movies[i] # pool.movies[i] =>
                      \E w \in 1..Len(pool.todo) :
                          /\ entry_of(w) = i
                          /\ pool'.pc[w] # pool.pc[w]
                          /\ \A v \in 1..Len(pool.todo) : entry_of(v) = i => v = w]_vars

\* a batch of two selected entries has ended, both lookups succeeded and
\* both entries were written
C18_Witness ==
    /\ pool # NoPool
    /\ ~pool.running
    /\ Len(pool.todo) = 2
    /\ \A w \in 1..2 :
          /\ pool.outcome[w] = "ok"
          /\ ~same_metadata(pool.movies[entry_of(w)], pool.movies0[entry_of(w)])

====
